---- MODULE Spec2Model ----
(***************************************************************************)
(* Model of the icon generators of gpu-temp-watch:                         *)
(*   create_icon.py               create_simple_ico() and its __main__     *)
(*   create_temperature_icons.py  create_colored_ico() and its __main__    *)
(*   scripts/create_icons.py      the Pillow based icon set generator      *)
(* A byte is an integer in 0..255, a byte string a sequence of bytes.      *)
(***************************************************************************)
EXTENDS Integers, Sequences, FiniteSets, TLC

\* ------------------------------------------------------------------ bounds
\* Longest color_bgra sequence handed to create_colored_ico by the driver.
MaxColorLen == 5

\* ------------------------------------------------------- struct.pack('<..')
RECURSIVE Pow256(_)
Pow256(k) == IF k = 0 THEN 1 ELSE 256 * Pow256(k - 1)

\* The k little-endian bytes of v, least significant byte first.
LE(v, k) == [i \in 1..k |-> (v \div Pow256(i - 1)) % 256]

pack_B(v) == LE(v, 1)
pack_H(v) == LE(v, 2)
pack_L(v) == LE(v, 4)

\* ------------------------------------------- create_icon.py: create_simple_ico
simple_width == 16
simple_height == 16
simple_colors == 0
simple_reserved == 0
simple_planes == 1
simple_bpp == 32
simple_size == 40 + (simple_width * simple_height * 4)
simple_offset == 22
simple_header_size == 40

\* Faulty variant: the header packed big-endian ('>HHH').
simple_ico_header_bigendian == <<0, 0, 0, 1, 0, 1>>

simple_ico_header == pack_H(0) \o pack_H(1) \o pack_H(1)

simple_dir_entry ==
    pack_B(simple_width) \o pack_B(simple_height) \o pack_B(simple_colors)
    \o pack_B(simple_reserved) \o pack_H(simple_planes) \o pack_H(simple_bpp)
    \o pack_L(simple_size) \o pack_L(simple_offset)

simple_bmp_header ==
    pack_L(simple_header_size) \o pack_L(simple_width)
    \o pack_L(simple_height * 2) \o pack_H(1) \o pack_H(simple_bpp)
    \o pack_L(0) \o pack_L(simple_width * simple_height * 4)
    \o pack_L(0) \o pack_L(0) \o pack_L(0) \o pack_L(0)

\* Faulty variant: the outline branches emit transparent pixels.
simple_pixel_no_outline(px, py) ==
    IF px = 8 /\ py < 12 THEN <<0, 0, 255, 255>>
    ELSE IF 6 <= px /\ px <= 10 /\ 12 <= py /\ py <= 14 THEN <<0, 0, 255, 255>>
    ELSE <<0, 0, 0, 0>>

\* The bytes the loop body appends to image_data for pixel (px, py).
simple_pixel(px, py) ==
    IF px = 8 /\ py < 12 THEN <<0, 0, 255, 255>>
    ELSE IF px \in {7, 9} /\ py < 12 THEN <<0, 0, 0, 255>>
    ELSE IF 6 <= px /\ px <= 10 /\ 12 <= py /\ py <= 14 THEN <<0, 0, 255, 255>>
    ELSE IF 5 <= px /\ px <= 11 /\ 11 <= py /\ py <= 15 THEN <<0, 0, 0, 255>>
    ELSE <<0, 0, 0, 0>>

simple_combine(data) ==
    simple_ico_header \o simple_dir_entry \o simple_bmp_header \o data

\* ------------------------------ create_temperature_icons.py: create_colored_ico
colored_width == 16
colored_height == 16
colored_colors == 0
colored_reserved == 0
colored_planes == 1
colored_bpp == 32
colored_size == 40 + (colored_width * colored_height * 4)
colored_offset == 22
colored_header_size == 40

colored_ico_header == pack_H(0) \o pack_H(1) \o pack_H(1)

colored_dir_entry ==
    pack_B(colored_width) \o pack_B(colored_height) \o pack_B(colored_colors)
    \o pack_B(colored_reserved) \o pack_H(colored_planes) \o pack_H(colored_bpp)
    \o pack_L(colored_size) \o pack_L(colored_offset)

\* Faulty variant: biHeight holds the undoubled height.
colored_bmp_header_plain_height ==
    pack_L(colored_header_size) \o pack_L(colored_width)
    \o pack_L(colored_height) \o pack_H(1) \o pack_H(colored_bpp)
    \o pack_L(0) \o pack_L(colored_width * colored_height * 4)
    \o pack_L(0) \o pack_L(0) \o pack_L(0) \o pack_L(0)

colored_bmp_header ==
    pack_L(colored_header_size) \o pack_L(colored_width)
    \o pack_L(colored_height * 2) \o pack_H(1) \o pack_H(colored_bpp)
    \o pack_L(0) \o pack_L(colored_width * colored_height * 4)
    \o pack_L(0) \o pack_L(0) \o pack_L(0) \o pack_L(0)

\* Faulty variant: the tube outline is drawn in the caller's color.
colored_pixel_tinted_outline(px, py, color) ==
    IF px = 8 /\ py < 12 THEN color
    ELSE IF px \in {7, 9} /\ py < 12 THEN color
    ELSE IF 6 <= px /\ px <= 10 /\ 12 <= py /\ py <= 14 THEN color
    ELSE IF 5 <= px /\ px <= 11 /\ 11 <= py /\ py <= 15 THEN <<0, 0, 0, 255>>
    ELSE <<0, 0, 0, 0>>

\* The bytes the loop body appends to image_data for pixel (px, py):
\* bytearray.extend(color) appends however many elements color has.
colored_pixel(px, py, color) ==
    IF px = 8 /\ py < 12 THEN color
    ELSE IF px \in {7, 9} /\ py < 12 THEN <<0, 0, 0, 255>>
    ELSE IF 6 <= px /\ px <= 10 /\ 12 <= py /\ py <= 14 THEN color
    ELSE IF 5 <= px /\ px <= 11 /\ 11 <= py /\ py <= 15 THEN <<0, 0, 0, 255>>
    ELSE <<0, 0, 0, 0>>

\* Faulty variant: the bitmap info header is left out of the concatenation.
colored_combine_no_bmp_header(data) ==
    colored_ico_header \o colored_dir_entry \o data

colored_combine(data) ==
    colored_ico_header \o colored_dir_entry \o colored_bmp_header \o data

\* ------------------------------------------------------------------- inputs
\* Byte values the driver builds colors from.
ByteVals == {0, 255}

\* The colors create_temperature_icons.py passes: cool, warm, hot.
TempColors == << <<0, 255, 0, 255>>, <<0, 165, 255, 255>>, <<0, 0, 255, 255>> >>
TempFiles == <<"thermometer-cool.ico", "thermometer-warm.ico", "thermometer-hot.ico">>

\* Colors the driver calls create_colored_ico with: the program's own and
\* every byte sequence of up to MaxColorLen elements.
Colors ==
    {TempColors[i] : i \in 1..3}
    \cup UNION {[1..n -> ByteVals] : n \in 0..MaxColorLen}

DriverFile == "out.ico"
IconFile == "icon.ico"

\* scripts/create_icons.py: icon_configs base names and the two versions.
icon_configs == <<"thermometer-cool", "thermometer-warm", "thermometer-hot">>
version_suffix == <<"", "-dev">>
icons_dir == "icons/"
icon_name(c, v) == icon_configs[c] \o version_suffix[v]
png_path(c, v) == icons_dir \o icon_name(c, v) \o ".png"
ico_path(c, v) == icons_dir \o icon_name(c, v) \o ".ico"

PilFiles == {png_path(c, v) : c \in 1..3, v \in 1..2}
            \cup {ico_path(c, v) : c \in 1..3, v \in 1..2}
AllFiles == {DriverFile, IconFile} \cup {TempFiles[i] : i \in 1..3} \cup PilFiles

\* -------------------------------------------------------------------- state
VARIABLES
    script,      \* the program being run
    mpc,         \* position in the program's top-level code
    ci, vi,      \* top-level loop indices (configs / calls done, versions done)
    fn,          \* the encoder function executing, or "none"
    pc,          \* position inside fn
    color_bgra, filename,   \* arguments of create_colored_ico
    x, y,        \* the pixel loops' counters
    image_data, ico_data,   \* locals of the encoder
    ret,         \* the value create_simple_ico returned
    err,         \* the exception propagating out of the last call
    fs,          \* the file system: file -> [state, data]
    io,          \* per file: write attempts made and whether one failed
    stdout,      \* lines printed
    exit         \* process status: "running", "ok", "error"

vars == <<script, mpc, ci, vi, fn, pc, color_bgra, filename, x, y,
          image_data, ico_data, ret, err, fs, io, stdout, exit>>

locals == <<color_bgra, filename, x, y, image_data, ico_data>>

Absent == [state |-> "absent", data |-> <<>>]

InitCommon ==
    /\ mpc = "start" /\ ci = 0 /\ vi = 0
    /\ fn = "none" /\ pc = "idle"
    /\ color_bgra = <<>> /\ filename = ""
    /\ x = 0 /\ y = 0 /\ image_data = <<>> /\ ico_data = <<>>
    /\ ret = <<>> /\ err = "none"
    /\ fs = [f \in AllFiles |-> Absent]
    /\ io = [f \in AllFiles |-> [attempts |-> 0, failed |-> FALSE]]
    /\ stdout = <<>> /\ exit = "running"

\* ---------------------------------------------------------- file operations
\* open(f, "wb") succeeded: the file exists and is empty.
Opened(f) ==
    /\ fs' = [fs EXCEPT ![f] = [state |-> "empty", data |-> <<>>]]
    /\ io' = [io EXCEPT ![f].attempts = @ + 1]

\* open(f, "wb") raised OSError: the file system is untouched.
OpenFailed(f) ==
    /\ fs' = fs
    /\ io' = [io EXCEPT ![f].attempts = @ + 1, ![f].failed = TRUE]

\* f.write(data) and the close at the end of the with block succeeded.
Written(f, data) ==
    /\ fs' = [fs EXCEPT ![f] = [state |-> "complete", data |-> data]]
    /\ io' = io

\* The write raised OSError: the file is left incomplete (contents not modelled).
WriteFailed(f) ==
    /\ fs' = [fs EXCEPT ![f] = [state |-> "partial", data |-> <<>>]]
    /\ io' = [io EXCEPT ![f].failed = TRUE]

\* ------------------------------------------------- create_simple_ico, by step
CallSimple ==
    /\ fn' = "create_simple_ico" /\ pc' = "loop"
    /\ x' = 0 /\ y' = 0 /\ image_data' = <<>> /\ ico_data' = <<>>
    /\ color_bgra' = <<>> /\ filename' = ""
    /\ err' = "none"

\* One iteration of the inner loop (lines 43-59).
SimplePixel ==
    /\ fn = "create_simple_ico" /\ pc = "loop" /\ y < simple_height
    /\ image_data' = image_data \o simple_pixel(x, y)
    /\ IF x + 1 < simple_width
          THEN x' = x + 1 /\ y' = y
          ELSE x' = 0 /\ y' = y + 1
    /\ UNCHANGED <<script, mpc, ci, vi, fn, pc, color_bgra, filename,
                   ico_data, ret, err, fs, io, stdout, exit>>

\* Both loops are exhausted: line 62.
SimpleCombine ==
    /\ fn = "create_simple_ico" /\ pc = "loop" /\ y = simple_height
    /\ ico_data' = simple_combine(image_data)
    /\ pc' = "return"
    /\ UNCHANGED <<script, mpc, ci, vi, fn, color_bgra, filename, x, y,
                   image_data, ret, err, fs, io, stdout, exit>>

\* return ico_data (line 64).
SimpleReturn ==
    /\ fn = "create_simple_ico" /\ pc = "return"
    /\ ret' = ico_data
    /\ fn' = "none" /\ pc' = "returned"
    /\ UNCHANGED <<script, mpc, ci, vi, locals, err, fs, io, stdout, exit>>

\* ------------------------------------------------ create_colored_ico, by step
CallColored(color, name) ==
    /\ fn' = "create_colored_ico" /\ pc' = "loop"
    /\ x' = 0 /\ y' = 0 /\ image_data' = <<>> /\ ico_data' = <<>>
    /\ color_bgra' = color /\ filename' = name
    /\ err' = "none"

\* One iteration of the inner loop (lines 43-59).
ColoredPixel ==
    /\ fn = "create_colored_ico" /\ pc = "loop" /\ y < colored_height
    /\ image_data' = image_data \o colored_pixel(x, y, color_bgra)
    /\ IF x + 1 < colored_width
          THEN x' = x + 1 /\ y' = y
          ELSE x' = 0 /\ y' = y + 1
    /\ UNCHANGED <<script, mpc, ci, vi, fn, pc, color_bgra, filename,
                   ico_data, ret, err, fs, io, stdout, exit>>

\* Both loops are exhausted: line 62.  Nothing checks len(image_data).
ColoredCombine ==
    /\ fn = "create_colored_ico" /\ pc = "loop" /\ y = colored_height
    /\ ico_data' = colored_combine(image_data)
    /\ pc' = "open"
    /\ UNCHANGED <<script, mpc, ci, vi, fn, color_bgra, filename, x, y,
                   image_data, ret, err, fs, io, stdout, exit>>

\* with open(filename, "wb") as f (line 64).
ColoredOpenOk ==
    /\ fn = "create_colored_ico" /\ pc = "open"
    /\ Opened(filename)
    /\ pc' = "write"
    /\ UNCHANGED <<script, mpc, ci, vi, fn, locals, ret, err, stdout, exit>>

ColoredOpenFail ==
    /\ fn = "create_colored_ico" /\ pc = "open"
    /\ OpenFailed(filename)
    /\ err' = "OSError" /\ fn' = "none" /\ pc' = "raised"
    /\ UNCHANGED <<script, mpc, ci, vi, locals, ret, stdout, exit>>

\* f.write(ico_data) and leaving the with block (line 65).
ColoredWriteOk ==
    /\ fn = "create_colored_ico" /\ pc = "write"
    /\ Written(filename, ico_data)
    /\ pc' = "print"
    /\ UNCHANGED <<script, mpc, ci, vi, fn, locals, ret, err, stdout, exit>>

ColoredWriteFail ==
    /\ fn = "create_colored_ico" /\ pc = "write"
    /\ WriteFailed(filename)
    /\ err' = "OSError" /\ fn' = "none" /\ pc' = "raised"
    /\ UNCHANGED <<script, mpc, ci, vi, locals, ret, stdout, exit>>

\* print(f"Created {filename}") and the implicit return (line 66).
ColoredPrint ==
    /\ fn = "create_colored_ico" /\ pc = "print"
    /\ stdout' = Append(stdout, "Created " \o filename)
    /\ fn' = "none" /\ pc' = "returned"
    /\ UNCHANGED <<script, mpc, ci, vi, locals, ret, err, fs, io, exit>>

\* ----------------------------------------------------------------- driver
\* Calls create_simple_ico(), then create_colored_ico(color, DriverFile)
\* for one color of Colors.
DriverCallSimple ==
    /\ script = "driver" /\ mpc = "start"
    /\ CallSimple
    /\ mpc' = "simple"
    /\ UNCHANGED <<script, ci, vi, ret, fs, io, stdout, exit>>

DriverCallColored ==
    /\ script = "driver" /\ mpc = "simple" /\ fn = "none" /\ pc = "returned"
    /\ \E color \in Colors : CallColored(color, DriverFile)
    /\ mpc' = "colored"
    /\ UNCHANGED <<script, ci, vi, ret, fs, io, stdout, exit>>

DriverEnd ==
    /\ script = "driver" /\ mpc = "colored" /\ fn = "none"
    /\ mpc' = "done"
    /\ exit' = IF pc = "raised" THEN "error" ELSE "ok"
    /\ UNCHANGED <<script, ci, vi, fn, pc, locals, ret, err, fs, io, stdout>>

Init == script = "driver" /\ InitCommon

Next ==
    \/ DriverCallSimple \/ DriverCallColored \/ DriverEnd
    \/ SimplePixel \/ SimpleCombine \/ SimpleReturn
    \/ ColoredPixel \/ ColoredCombine
    \/ ColoredOpenOk \/ ColoredOpenFail
    \/ ColoredWriteOk \/ ColoredWriteFail \/ ColoredPrint

Spec == Init /\ [][Next]_vars

\* ------------------------------------------------- create_icon.py __main__
\* ico_data = create_simple_ico() (line 67).
IconMainCall ==
    /\ script = "create_icon" /\ mpc = "start"
    /\ CallSimple
    /\ mpc' = "called"
    /\ UNCHANGED <<script, ci, vi, ret, fs, io, stdout, exit>>

\* with open("icon.ico", "wb") as f (line 68).
IconMainOpenOk ==
    /\ script = "create_icon" /\ mpc = "called" /\ fn = "none" /\ pc = "returned"
    /\ Opened(IconFile)
    /\ mpc' = "write"
    /\ UNCHANGED <<script, ci, vi, fn, pc, locals, ret, err, stdout, exit>>

\* The OSError is not caught: the interpreter exits with a traceback.
IconMainOpenFail ==
    /\ script = "create_icon" /\ mpc = "called" /\ fn = "none" /\ pc = "returned"
    /\ OpenFailed(IconFile)
    /\ err' = "OSError" /\ mpc' = "crashed" /\ exit' = "error"
    /\ UNCHANGED <<script, ci, vi, fn, pc, locals, ret, stdout>>

\* f.write(ico_data) (line 69).
IconMainWriteOk ==
    /\ script = "create_icon" /\ mpc = "write"
    /\ Written(IconFile, ret)
    /\ mpc' = "print"
    /\ UNCHANGED <<script, ci, vi, fn, pc, locals, ret, err, stdout, exit>>

IconMainWriteFail ==
    /\ script = "create_icon" /\ mpc = "write"
    /\ WriteFailed(IconFile)
    /\ err' = "OSError" /\ mpc' = "crashed" /\ exit' = "error"
    /\ UNCHANGED <<script, ci, vi, fn, pc, locals, ret, stdout>>

\* print("Created icon.ico file") (line 70) and the end of the script.
IconMainPrint ==
    /\ script = "create_icon" /\ mpc = "print"
    /\ stdout' = Append(stdout, "Created icon.ico file")
    /\ mpc' = "done" /\ exit' = "ok"
    /\ UNCHANGED <<script, ci, vi, fn, pc, locals, ret, err, fs, io>>

\* ------------------------------------- create_temperature_icons.py __main__
\* The next of the three calls (lines 73, 76, 79); ci counts the calls made.
TempMainCall ==
    /\ script = "create_temperature_icons"
    /\ \/ mpc = "start"
       \/ mpc = "called" /\ fn = "none" /\ pc = "returned"
    /\ ci < 3
    /\ CallColored(TempColors[ci + 1], TempFiles[ci + 1])
    /\ ci' = ci + 1 /\ mpc' = "called"
    /\ UNCHANGED <<script, vi, ret, fs, io, stdout, exit>>

\* No call is wrapped in try: an exception out of create_colored_ico ends
\* the script with a traceback, and the calls after it are never made.
TempMainCrash ==
    /\ script = "create_temperature_icons"
    /\ mpc = "called" /\ fn = "none" /\ pc = "raised"
    /\ mpc' = "crashed" /\ exit' = "error"
    /\ UNCHANGED <<script, ci, vi, fn, pc, locals, ret, err, fs, io, stdout>>

\* The four closing prints (lines 81-84).
TempMainSummary ==
    /\ script = "create_temperature_icons"
    /\ mpc = "called" /\ fn = "none" /\ pc = "returned" /\ ci = 3
    /\ stdout' = stdout \o
         << "Created temperature state icons!",
            "- thermometer-cool.ico (green) for cool temperatures",
            "- thermometer-warm.ico (orange) for warm temperatures",
            "- thermometer-hot.ico (red) for hot temperatures" >>
    /\ mpc' = "done" /\ exit' = "ok"
    /\ UNCHANGED <<script, ci, vi, fn, pc, locals, ret, err, fs, io>>

\* --------------------------------------------------- scripts/create_icons.py
\* Pillow encodes these files; their bytes are not modelled.
PilSaved(f) ==
    /\ fs' = [fs EXCEPT ![f] = [state |-> "complete", data |-> <<>>]]
    /\ io' = [io EXCEPT ![f].attempts = @ + 1]

\* save() raised: Pillow removes a file it created when it can, otherwise
\* an incomplete file stays.
PilSaveFailed(f) ==
    /\ \E st \in {"absent", "partial"} :
          fs' = [fs EXCEPT ![f] = [state |-> st, data |-> <<>>]]
    /\ io' = [io EXCEPT ![f].attempts = @ + 1, ![f].failed = TRUE]

descriptions == <<"Green (Cool)", "Orange (Warm)", "Red (Hot)">>
version_type == <<"Regular", "Dev">>
SuccessLine == "All icons created successfully!"

\* main: os.makedirs(icons_dir, exist_ok=True) and the first print
\* (lines 116-126).
PilMakedirsOk ==
    /\ script = "create_icons" /\ mpc = "start"
    /\ stdout' = Append(stdout, "Creating all thermometer icons...")
    /\ mpc' = "configs"
    /\ UNCHANGED <<script, ci, vi, fn, pc, locals, ret, err, fs, io, exit>>

PilMakedirsFail ==
    /\ script = "create_icons" /\ mpc = "start"
    /\ err' = "OSError" /\ mpc' = "crashed" /\ exit' = "error"
    /\ UNCHANGED <<script, ci, vi, fn, pc, locals, ret, fs, io, stdout>>

\* main's loop enters create_icon_set for the next config (lines 129-130,
\* 91-97); ci is the config being processed.
PilIconSet ==
    /\ script = "create_icons" /\ mpc = "configs" /\ ci < 3
    /\ ci' = ci + 1 /\ vi' = 0
    /\ stdout' = Append(stdout, "Creating " \o descriptions[ci + 1] \o " icons...")
    /\ mpc' = "versions"
    /\ UNCHANGED <<script, fn, pc, locals, ret, err, fs, io, exit>>

\* One version: draw the image in memory and img.save(png_path, 'PNG')
\* (lines 100-108); vi is the version being processed.
PilSavePngOk ==
    /\ script = "create_icons" /\ mpc = "versions" /\ vi < 2
    /\ vi' = vi + 1
    /\ PilSaved(png_path(ci, vi + 1))
    /\ stdout' = stdout \o
         << "  " \o version_type[vi + 1] \o ": " \o icon_name(ci, vi + 1),
            "    PNG: " \o png_path(ci, vi + 1) >>
    /\ mpc' = "ico"
    /\ UNCHANGED <<script, ci, fn, pc, locals, ret, err, exit>>

\* img.save is outside any try: the OSError leaves create_icon_set and
\* main, and the script ends with a traceback.
PilSavePngFail ==
    /\ script = "create_icons" /\ mpc = "versions" /\ vi < 2
    /\ vi' = vi + 1
    /\ PilSaveFailed(png_path(ci, vi + 1))
    /\ stdout' = Append(stdout,
         "  " \o version_type[vi + 1] \o ": " \o icon_name(ci, vi + 1))
    /\ err' = "OSError" /\ mpc' = "crashed" /\ exit' = "error"
    /\ UNCHANGED <<script, ci, fn, pc, locals, ret>>

\* Where create_icon_set's loop, then main's, goes after create_ico_file.
AfterIco == IF vi < 2 THEN "versions" ELSE "configs"

\* create_ico_file: the try body ran to its end (lines 73-84).
PilIcoSaveOk ==
    /\ script = "create_icons" /\ mpc = "ico"
    /\ PilSaved(ico_path(ci, vi))
    /\ stdout' = Append(stdout, "Created ICO: " \o ico_path(ci, vi))
    /\ mpc' = AfterIco
    /\ UNCHANGED <<script, ci, vi, fn, pc, locals, ret, err, exit>>

\* create_ico_file: images[0].save raised; except Exception prints the
\* error and the function returns normally (lines 83, 86-87).
PilIcoSaveFail ==
    /\ script = "create_icons" /\ mpc = "ico"
    /\ PilSaveFailed(ico_path(ci, vi))
    /\ stdout' = Append(stdout,
         "Error creating ICO file " \o ico_path(ci, vi) \o ": OSError")
    /\ mpc' = AfterIco
    /\ UNCHANGED <<script, ci, vi, fn, pc, locals, ret, err, exit>>

\* create_ico_file: Image.open or resize raised before any save; the same
\* handler prints the error (lines 73-80, 86-87).
PilIcoReadFail ==
    /\ script = "create_icons" /\ mpc = "ico"
    /\ stdout' = Append(stdout,
         "Error creating ICO file " \o ico_path(ci, vi) \o ": read")
    /\ mpc' = AfterIco
    /\ UNCHANGED <<script, ci, vi, fn, pc, locals, ret, err, fs, io, exit>>

\* main after its loop (lines 132-136): the success line is printed
\* whatever create_ico_file caught.
PilMainSummary ==
    /\ script = "create_icons" /\ mpc = "configs" /\ ci = 3
    /\ stdout' = Append(stdout, SuccessLine)
    /\ mpc' = "done" /\ exit' = "ok"
    /\ UNCHANGED <<script, ci, vi, fn, pc, locals, ret, err, fs, io>>

Scripts == {"create_icon", "create_temperature_icons", "create_icons"}

InitRun == script \in Scripts /\ InitCommon

NextRun ==
    \/ IconMainCall \/ IconMainOpenOk \/ IconMainOpenFail
    \/ IconMainWriteOk \/ IconMainWriteFail \/ IconMainPrint
    \/ TempMainCall \/ TempMainCrash \/ TempMainSummary
    \/ PilMakedirsOk \/ PilMakedirsFail \/ PilIconSet
    \/ PilSavePngOk \/ PilSavePngFail
    \/ PilIcoSaveOk \/ PilIcoSaveFail \/ PilIcoReadFail \/ PilMainSummary
    \/ SimplePixel \/ SimpleCombine \/ SimpleReturn
    \/ ColoredPixel \/ ColoredCombine
    \/ ColoredOpenOk \/ ColoredOpenFail
    \/ ColoredWriteOk \/ ColoredWriteFail \/ ColoredPrint

SpecRun == InitRun /\ [][NextRun]_vars

\* The files a script is run to generate.
Planned ==
    CASE script = "create_icon" -> {IconFile}
      [] script = "create_temperature_icons" -> {TempFiles[i] : i \in 1..3}
      [] script = "create_icons" -> PilFiles
      [] OTHER -> {DriverFile}

\* ------------------------------------------------------- reading bytes back
\* The little-endian unsigned integer in the k bytes of s at 0-based offset off.
RECURSIVE U(_, _, _)
U(s, off, k) == IF k = 0 THEN 0 ELSE s[off + 1] + 256 * U(s, off + 1, k - 1)

\* The n bytes of s at 0-based offset off.
Bytes(s, off, n) == SubSeq(s, off + 1, off + n)

\* The driver's view of the two calls.
SimpleReturned ==
    script = "driver"
    /\ (mpc \in {"colored", "done"} \/ (mpc = "simple" /\ pc = "returned"))

\* create_simple_ico has just returned: its locals are those at the return.
SimpleJustReturned == script = "driver" /\ mpc = "simple" /\ pc = "returned"

ColoredWritten == script = "driver" /\ fs[DriverFile].state = "complete"

\* The byte streams produced so far: the value returned and the file written.
Produced ==
    (IF SimpleReturned THEN {ret} ELSE {})
    \cup (IF ColoredWritten THEN {fs[DriverFile].data} ELSE {})

\* Pattern regions of the 16x16 glyph, as the specification names them.
Tube(px, py) == px = 8 /\ py < 12
Bulb(px, py) == 6 <= px /\ px <= 10 /\ 12 <= py /\ py <= 14
Outline(px, py) ==
    /\ ~Tube(px, py) /\ ~Bulb(px, py)
    /\ \/ (px \in {7, 9} /\ py < 12)
       \/ (5 <= px /\ px <= 11 /\ 11 <= py /\ py <= 15)

\* ---------------------------------------------------------------- claims
\* C1: the encoded stream is exactly 62 + W*H*4 bytes long (W, H in 1..255);
\* create_simple_ico() returns, and create_colored_ico with a 4-byte color
\* writes, exactly 1086 bytes.
C1_OutputLength ==
    /\ SimpleReturned =>
          /\ simple_width \in 1..255 /\ simple_height \in 1..255
          /\ Len(ret) = 62 + simple_width * simple_height * 4
          /\ Len(ret) = 1086
    /\ (ColoredWritten /\ Len(color_bgra) = 4) =>
          /\ colored_width \in 1..255 /\ colored_height \in 1..255
          /\ Len(fs[DriverFile].data) = 62 + colored_width * colored_height * 4
          /\ Len(fs[DriverFile].data) = 1086

C1_Witness ==
    /\ ColoredWritten /\ SimpleReturned
    /\ Len(color_bgra) = 4 /\ color_bgra = TempColors[2]

\* C2: in every produced stream imageSize (offset 14) is 40 + W*H*4 and
\* dataOffset (offset 18) is 22, so dataOffset + imageSize is the total length.
C2_DirectoryEntry ==
    \A s \in Produced :
        /\ U(s, 14, 4) = 40 + s[7] * s[8] * 4
        /\ U(s, 18, 4) = 22
        /\ U(s, 18, 4) + U(s, 14, 4) = Len(s)

\* C3: in every produced stream biHeight (offset 30) is 2*H, while the
\* directory entry's height byte (offset 7) and biWidth (offset 26) hold the
\* undoubled H and W.
C3_DoubledHeight ==
    /\ SimpleReturned =>
          /\ U(ret, 30, 4) = 2 * simple_height
          /\ U(ret, 7, 1) = simple_height
          /\ U(ret, 26, 4) = simple_width
    /\ ColoredWritten =>
          /\ U(fs[DriverFile].data, 30, 4) = 2 * colored_height
          /\ U(fs[DriverFile].data, 7, 1) = colored_height
          /\ U(fs[DriverFile].data, 26, 4) = colored_width

C3_Witness == ColoredWritten /\ SimpleReturned /\ Len(color_bgra) # 4

\* C4: the 16x16 output starts 00 00 01 00 01 00, has 10 10 at bytes 6..7
\* and 20 00 at bytes 12..13, for create_simple_ico and for every color
\* passed to create_colored_ico.
C4_FixedHeader ==
    \A s \in Produced :
        /\ Bytes(s, 0, 6) = <<0, 0, 1, 0, 1, 0>>
        /\ Bytes(s, 6, 2) = <<16, 16>>
        /\ Bytes(s, 12, 2) = <<32, 0>>

C4_Witness == ColoredWritten /\ color_bgra = <<255, 255, 255>> /\ mpc = "done"

\* Reading stream s back as a w x h image gives the pixel buffer data.
RoundTrips(s, data, w, h) ==
    /\ U(s, 6, 1) = w /\ U(s, 7, 1) = h
    /\ U(s, 26, 4) = w /\ U(s, 30, 4) = 2 * h
    /\ Len(s) = 62 + w * h * 4
    /\ \A py \in 0..(h - 1), px \in 0..(w - 1) :
          LET k == 4 * (py * w + px) IN
          /\ k + 4 <= Len(data)
          /\ 62 + k + 4 <= Len(s)
          /\ Bytes(s, 62 + k, 4) = Bytes(data, k, 4)

\* C5: round trip: the header gives back the declared width and height and,
\* for every pixel (x, y), the four bytes at offset 62 + 4*(y*W + x) are the
\* input buffer's quadruple for that pixel; no byte is dropped or added.
C5_RoundTrip ==
    /\ SimpleJustReturned =>
          RoundTrips(ret, image_data, simple_width, simple_height)
    /\ ColoredWritten =>
          RoundTrips(fs[DriverFile].data, image_data,
                     colored_width, colored_height)

\* C6: a color_bgra of fewer than 4 elements (a pixel buffer shorter than
\* W*H*4) ends create_colored_ico in PixelBufferSizeMismatch and no file,
\* not even a partial one, is written.
C6_ShortBufferRejected ==
    (script = "driver" /\ mpc \in {"colored", "done"} /\ Len(color_bgra) < 4) =>
        /\ fs[DriverFile].state = "absent"
        /\ fn = "none" => (pc = "raised" /\ err = "PixelBufferSizeMismatch")

\* C9 (as stated): the buffer create_simple_ico builds is 1024 bytes and every
\* quadruple is [0,0,0,0] or [0,0,255,255]; no other pixel value occurs.
C9_TwoPixelValues ==
    SimpleJustReturned =>
        /\ Len(image_data) = 1024
        /\ \A k \in 0..255 :
              Bytes(image_data, 4 * k, 4) \in {<<0, 0, 0, 0>>, <<0, 0, 255, 255>>}

\* C9 (amended): the buffer is 1024 bytes; a pixel is [0,0,255,255] on the
\* tube and the bulb, [0,0,0,255] (opaque black) on the outline and
\* [0,0,0,0] everywhere else.
C9_ThreePixelValues ==
    SimpleJustReturned =>
        /\ Len(image_data) = 1024
        /\ \A py \in 0..15, px \in 0..15 :
              Bytes(image_data, 4 * (py * 16 + px), 4) =
                  IF Tube(px, py) \/ Bulb(px, py) THEN <<0, 0, 255, 255>>
                  ELSE IF Outline(px, py) THEN <<0, 0, 0, 255>>
                  ELSE <<0, 0, 0, 0>>

C9_Witness ==
    /\ SimpleJustReturned
    /\ Bytes(image_data, 4 * 7, 4) = <<0, 0, 0, 255>>
    /\ Bytes(image_data, 4 * 8, 4) = <<0, 0, 255, 255>>

\* C10: create_colored_ico([0,0,255,255], f) writes exactly the bytes
\* create_simple_ico() returns; for any other 4-byte color the two outputs
\* differ only inside tube and bulb pixels (header, outline and background
\* bytes are equal).
C10_EncodersAgree ==
    (ColoredWritten /\ Len(color_bgra) = 4) =>
        LET out == fs[DriverFile].data IN
        /\ color_bgra = <<0, 0, 255, 255>> => out = ret
        /\ Len(out) = Len(ret)
        /\ \A i \in 1..Len(out) :
              out[i] # ret[i] =>
                  /\ i > 62
                  /\ LET p == (i - 63) \div 4 IN
                     Tube(p % 16, p \div 16) \/ Bulb(p % 16, p \div 16)

C10_Witness ==
    /\ ColoredWritten /\ color_bgra = <<0, 0, 255, 255>>
    /\ fs[DriverFile].data = ret /\ Len(ret) > 62

\* C7: a failed write of one icon file leaves its siblings unaffected: at the
\* end of a run every planned icon whose own write did not fail is written.
C7_SiblingsUnaffected ==
    (exit # "running" /\ \E g \in Planned : io[g].failed) =>
        \A f \in Planned : ~io[f].failed => fs[f].state = "complete"

\* C8: an I/O error of a write is propagated unchanged and never retried: a
\* run in which a write failed ends with that error as a fatal condition and
\* never reports overall success.
C8_WriteErrorFatal ==
    /\ \A f \in Planned : io[f].attempts <= 1
    /\ (exit # "running" /\ \E g \in Planned : io[g].failed) =>
          /\ exit = "error" /\ err = "OSError"
          /\ \A i \in 1..Len(stdout) : stdout[i] # SuccessLine

====
